---- MODULE Spec2Model ----
(***************************************************************************)
(* Model of ngf_shaderc (src/nicegraf_shaderc.cpp): the command line loop, *)
(* the sort of the targets, the SPIR-V compilation loop and the            *)
(* target / technique / entry point loops that feed the pipeline layout    *)
(* and the separate-to-combined maps and write the output files.           *)
(*                                                                         *)
(* pipeline_layout.h, separate_to_combined_map.h, target.h and             *)
(* shader_defines.h are not part of the sources at hand; the operators     *)
(* that stand for them follow the written description of those components. *)
(***************************************************************************)
EXTENDS Integers, Sequences, FiniteSets, TLC

VARIABLES
  pc,                 \* position in main()
  exit_code,          \* -1 while running, then the process exit code
  err,                \* which exit(1) was taken ("" if none)
  targets,            \* std::vector<const target_info*> targets
  header_path,        \* TRUE iff the string header_path is not empty
  techniques,         \* std::vector<technique>
  spv_results,        \* std::vector<shaderc::SpvCompilationResult>
  target_info,        \* index of the target of the outer loop
  tech,               \* index of the technique of the current loop
  ep,                 \* index of the entry point of the current loop
  spv_idx,
  generate_pipeline_metadata,
  res_layout,         \* pipeline_layout res_layout
  images_to_cis,      \* separate_to_combined_map
  samplers_to_cis,    \* separate_to_combined_map
  cis_decor,          \* decorations set on combined ids, current technique
  used_spv,           \* spv_results element used by the last entry point
  files,              \* paths opened for writing so far
  meta_out            \* per technique: the .pipeline writes, in order

vars == <<pc, exit_code, err, targets, header_path, techniques,
          spv_results, target_info, tech, ep, spv_idx,
          generate_pipeline_metadata, res_layout, images_to_cis,
          samplers_to_cis, cis_decor, used_spv, files, meta_out>>

----------------------------------------------------------------------------
\* Bounds of the model.

MaxTargets == 2
MaxTechniques == 2
MaxEntryPoints == 2

----------------------------------------------------------------------------
\* Constants of the program.

STAGE_MASK_VERTEX == 1
STAGE_MASK_FRAGMENT == 2
AUTOGEN_CIS_DESCRIPTOR_SET == 9

UNIFORM_BUFFER == 0
STORAGE_BUFFER == 1
SAMPLER == 2
TEXTURE == 3
COMBINED_IMAGE_SAMPLER == 4

\* target.h: the catalog of targets (four of its entries).
TARGET_MAP ==
  [n \in {"gl430", "gles310", "spv", "msl20"} |->
     CASE n = "gl430"   -> [api |-> "GL",     file_ext |-> "430.glsl"]
       [] n = "gles310" -> [api |-> "GL",     file_ext |-> "310es.glsl"]
       [] n = "spv"     -> [api |-> "VULKAN", file_ext |-> "spv"]
       [] n = "msl20"   -> [api |-> "METAL",  file_ext |-> "20.msl"]]

\* enum class target_api { GL, VULKAN, METAL }: the value operator< compares.
ApiOrd(api) == CASE api = "GL" -> 0 [] api = "VULKAN" -> 1 [] api = "METAL" -> 2

----------------------------------------------------------------------------
\* Helpers.

SeqsUpTo(S, n) == UNION {[1..k -> S] : k \in 0..n}

Range(s) == {s[i] : i \in DOMAIN s}

RECURSIVE SortedSeq(_)
SortedSeq(S) ==
  IF S = {} THEN <<>>
  ELSE LET m == CHOOSE x \in S : \A y \in S : x <= y
       IN  <<m>> \o SortedSeq(S \ {m})

RECURSIVE Flatten(_)
Flatten(ss) == IF ss = <<>> THEN <<>> ELSE Head(ss) \o Flatten(Tail(ss))

\* a | b on the two stage bits.
BitOr(a, b) ==
  (IF a % 2 = 1 \/ b % 2 = 1 THEN 1 ELSE 0)
  + 2 * (IF (a \div 2) % 2 = 1 \/ (b \div 2) % 2 = 1 THEN 1 ELSE 0)

----------------------------------------------------------------------------
\* Inputs: what reflection reports for a SPIR-V module.  Each module lists
\* its uniform buffers, storage buffers, separate samplers and separate
\* images as (id, set, slot), and the (image, sampler) pairs it samples
\* with, each with the id the combined sampler gets when one is built.

Res(i, s, b) == [id |-> i, set |-> s, slot |-> b]

SpvModules ==
  [m \in {"buffers", "textured"} |->
     CASE m = "buffers" ->
            [ubo |-> <<Res(12, 0, 2)>>, ssbo |-> <<Res(11, 0, 0)>>,
             smp |-> <<>>, img |-> <<>>, pairs |-> <<>>]
       [] m = "textured" ->
            [ubo |-> <<Res(10, 0, 0)>>, ssbo |-> <<>>,
             smp |-> <<Res(20, 1, 0)>>,
             img |-> <<Res(30, 1, 1), Res(31, 1, 3)>>,
             pairs |-> <<[image_id |-> 30, sampler_id |-> 20,
                          combined_id |-> 40],
                         [image_id |-> 31, sampler_id |-> 20,
                          combined_id |-> 41]>>]]

EntryPointInputs == [kind : {"vs", "ps"}, spv : DOMAIN SpvModules]

\* Techniques: up to MaxTechniques of them, with up to MaxEntryPoints entry
\* points in all (a technique may have none).  es lists the entry points in
\* source order and owner[i] is the technique entry point i belongs to.
TechniquesOf(es, owner, nt) ==
  [t \in 1..nt |->
     LET mine == {i \in 1..Len(es) : owner[i] = t}
     IN  [entry_points |->
            [k \in 1..Cardinality(mine) |->
               es[k + Cardinality({i \in 1..Len(es) : owner[i] < t})]]]]

TechniqueInputs ==
  {<<>>} \cup
  UNION {UNION {{TechniquesOf(es, owner, nt) :
                   owner \in {o \in [1..Len(es) -> 1..nt] :
                                \A i, j \in 1..Len(es) :
                                   i < j => o[i] <= o[j]}} :
                es \in SeqsUpTo(EntryPointInputs, MaxEntryPoints)} :
         nt \in 1..MaxTechniques}

----------------------------------------------------------------------------
\* create_cross_compiler and the reflection calls of main.

\* compiler->get_shader_resources()
get_shader_resources(spv) == SpvModules[spv]

\* compiler->get_combined_image_samplers(): the list is filled by
\* build_combined_image_samplers(), which only the GL case calls.
get_combined_image_samplers(spv, api) ==
  IF api = "GL" THEN SpvModules[spv].pairs ELSE <<>>

\* The decorations the cis_idx loop sets on the combined ids of one compiler.
SetCisDecorations(cis) ==
  [i \in 1..Len(cis) |->
     [image_id |-> cis[i].image_id,
      sampler_id |-> cis[i].sampler_id,
      combined_id |-> cis[i].combined_id,
      set |-> AUTOGEN_CIS_DESCRIPTOR_SET,
      binding |-> i - 1]]

\* DoRemapping with the METAL case forgotten.
DoRemapping_GlOnly(api) == api = "GL"

DoRemapping(api) == api = "GL" \/ api = "METAL"

FeedGuard(do_remapping, gpm) == do_remapping \/ gpm

\* StageMaskBit with the stage test lost: every stage is tagged VERTEX.
StageMaskBit_AlwaysVertex(kind) == STAGE_MASK_VERTEX

StageMaskBit(kind) ==
  IF kind = "vs" THEN STAGE_MASK_VERTEX ELSE STAGE_MASK_FRAGMENT

----------------------------------------------------------------------------
\* pipeline_layout: a set of descriptors keyed by (set, original slot).

EmptyLayout == [descs |-> {}, conflict |-> FALSE]

process_resource(layout, r, dtype, smb, do_remapping) ==
  LET existing == {d \in layout.descs : d.set = r.set /\ d.oslot = r.slot}
      inset    == {d \in layout.descs : d.set = r.set}
  IN  IF layout.conflict THEN layout
      ELSE IF existing = {}
      THEN [layout EXCEPT !.descs = @ \cup
              {[set |-> r.set, oslot |-> r.slot,
                slot |-> IF do_remapping THEN Cardinality(inset) ELSE r.slot,
                type |-> dtype, stage_mask |-> smb]}]
      ELSE LET d == CHOOSE x \in existing : TRUE
           IN  IF d.type # dtype
               THEN [layout EXCEPT !.conflict = TRUE]
               ELSE [layout EXCEPT !.descs = (@ \ {d}) \cup
                       {[d EXCEPT !.stage_mask = BitOr(@, smb)]}]

RECURSIVE process_resources(_, _, _, _, _)
process_resources(layout, resources, dtype, smb, do_remapping) ==
  IF resources = <<>> THEN layout
  ELSE process_resources(
         process_resource(layout, Head(resources), dtype, smb, do_remapping),
         Tail(resources), dtype, smb, do_remapping)

set_count(layout) ==
  IF layout.descs = {} THEN 0
  ELSE 1 + (CHOOSE m \in {d.set : d \in layout.descs} :
              \A d \in layout.descs : d.set <= m)

\* The pipeline layout record: set count, then per set its size and the
\* (slot, type, stage_mask) of its descriptors in key order.
LayoutRecord(layout) ==
  <<set_count(layout)>> \o
  Flatten([s \in 1..set_count(layout) |->
    LET ds   == {d \in layout.descs : d.set = s - 1}
        keys == SortedSeq({d.oslot : d \in ds})
    IN  <<Cardinality(ds)>> \o
        Flatten([k \in 1..Len(keys) |->
          LET d == CHOOSE x \in ds : x.oslot = keys[k]
          IN  <<d.slot, d.type, d.stage_mask>>])])

----------------------------------------------------------------------------
\* separate_to_combined_map: separate id -> ordered combined ids.

EmptyMap == <<>>

add_resource(map, separate_id, combined_id) ==
  IF separate_id \in DOMAIN map
  THEN [map EXCEPT ![separate_id] =
          IF combined_id \in Range(@) THEN @ ELSE Append(@, combined_id)]
  ELSE map @@ (separate_id :> <<combined_id>>)

serialize(map) ==
  LET ids == SortedSeq(DOMAIN map)
  IN  <<Len(ids)>> \o
      Flatten([i \in 1..Len(ids) |->
                 <<ids[i], Len(map[ids[i]])>> \o map[ids[i]]])

----------------------------------------------------------------------------
\* The part of the entry point loop body that feeds the layout and the maps.

\* AddCis with the image id passed for both maps.
RECURSIVE AddCis_ImageIdTwice(_, _, _)
AddCis_ImageIdTwice(map, cis, field) ==
  IF cis = <<>> THEN map
  ELSE AddCis_ImageIdTwice(add_resource(map, Head(cis).image_id,
                                        Head(cis).combined_id),
                           Tail(cis), field)

RECURSIVE AddCis(_, _, _)
AddCis(map, cis, field) ==
  IF cis = <<>> THEN map
  ELSE AddCis(add_resource(map,
                           IF field = "image" THEN Head(cis).image_id
                                              ELSE Head(cis).sampler_id,
                           Head(cis).combined_id),
              Tail(cis), field)

FeedEntryPoint(acc, kind, spv, api, gpm) ==
  LET resources    == get_shader_resources(spv)
      cis          == get_combined_image_samplers(spv, api)
      do_remapping == DoRemapping(api)
      smb          == StageMaskBit(kind)
      l1 == process_resources(acc.layout, resources.ubo, UNIFORM_BUFFER,
                              smb, do_remapping)
      l2 == process_resources(l1, resources.ssbo, STORAGE_BUFFER,
                              smb, do_remapping)
      l3 == process_resources(l2, resources.smp, SAMPLER, smb, do_remapping)
      l4 == process_resources(l3, resources.img, TEXTURE, smb, do_remapping)
  IN  IF FeedGuard(do_remapping, gpm)
      THEN [layout   |-> l4,
            images   |-> AddCis(acc.images, cis, "image"),
            samplers |-> AddCis(acc.samplers, cis, "sampler")]
      ELSE acc

\* What the .pipeline file of a technique holds (layout record and the two
\* separate-to-combined records).
MetadataRecords(layout, images, samplers) ==
  [layout   |-> LayoutRecord(layout),
   images   |-> serialize(images),
   samplers |-> serialize(samplers)]

----------------------------------------------------------------------------
\* std::sort(targets, by api): the comparator orders by api alone, so the
\* result is some arrangement of the same targets with the apis in order;
\* the order of targets of equal api is not fixed by the comparator.

Arrangements(s) ==
  {[i \in 1..Len(s) |-> s[f[i]]] :
     f \in {g \in [1..Len(s) -> 1..Len(s)] :
              \A i, j \in 1..Len(s) : i # j => g[i] # g[j]}}

SortedByApi(s) ==
  \A i \in 1..Len(s) - 1 :
     ~(ApiOrd(TARGET_MAP[s[i + 1]].api) < ApiOrd(TARGET_MAP[s[i]].api))

SortOutcomes(s) == {p \in Arrangements(s) : SortedByApi(p)}

----------------------------------------------------------------------------
\* Paths of the output files.

HeaderFile == <<"header", 0, "", "">>
ShaderFile(t, kind, ext) == <<"shader", t, kind, ext>>
PipelineFile(t) == <<"pipeline", t, "", "">>

NoSpv == [tech |-> 0, ep |-> 0, spv |-> "buffers", ok |-> FALSE]

EntryPoints(t) == techniques[t].entry_points

\* exit(code): the process ends and its memory is released; what remains is
\* the exit code, the diagnostic and the files written.
Exit(code, why) ==
  /\ pc' = "done"
  /\ exit_code' = code
  /\ err' = why
  /\ targets' = <<>>
  /\ header_path' = FALSE
  /\ techniques' = <<>>
  /\ spv_results' = <<>>
  /\ target_info' = 1
  /\ tech' = 1
  /\ ep' = 1
  /\ spv_idx' = 0
  /\ generate_pipeline_metadata' = TRUE
  /\ res_layout' = EmptyLayout
  /\ images_to_cis' = EmptyMap
  /\ samplers_to_cis' = EmptyMap
  /\ cis_decor' = <<>>
  /\ used_spv' = NoSpv

----------------------------------------------------------------------------
Init ==
  /\ pc = "args"
  /\ exit_code = -1
  /\ err = ""
  /\ targets = <<>>
  /\ header_path = FALSE
  /\ techniques = <<>>
  /\ spv_results = <<>>
  /\ target_info = 1
  /\ tech = 1
  /\ ep = 1
  /\ spv_idx = 0
  /\ generate_pipeline_metadata = TRUE
  /\ res_layout = EmptyLayout
  /\ images_to_cis = EmptyMap
  /\ samplers_to_cis = EmptyMap
  /\ cis_decor = <<>>
  /\ used_spv = NoSpv
  /\ files = {}
  /\ meta_out = <<>>

\* ---- the option loop ----------------------------------------------------
\* -O and -n set the output folder and the header namespace, which are not
\* part of the state here.

\* Invoked with no argument: the usage text is printed, exit(0).
ShowUsage ==
  /\ pc = "args"
  /\ targets = <<>>
  /\ ~header_path
  /\ Exit(0, "")
  /\ UNCHANGED <<files, meta_out>>

\* "-t" with a name of TARGET_MAP.
OptTarget ==
  /\ pc = "args"
  /\ Len(targets) < MaxTargets
  /\ \E n \in DOMAIN TARGET_MAP :
       targets' = Append(targets, n)
  /\ UNCHANGED <<pc, exit_code, err, header_path, techniques, spv_results,
                 target_info, tech, ep, spv_idx, generate_pipeline_metadata,
                 res_layout, images_to_cis, samplers_to_cis, cis_decor,
                 used_spv, files, meta_out>>

\* "-h <value>": header_path = option_value.  The value may be the empty
\* string, and a later -h replaces the value of an earlier one.
OptHeader ==
  /\ pc = "args"
  /\ \E nonempty \in BOOLEAN : header_path' = nonempty
  /\ UNCHANGED <<pc, exit_code, err, targets, techniques,
                 spv_results, target_info, tech, ep, spv_idx,
                 generate_pipeline_metadata, res_layout, images_to_cis,
                 samplers_to_cis, cis_decor, used_spv, files, meta_out>>

\* An option without a value, "-t" with an unknown name, or an unknown
\* option: exit(1).
OptUsageError ==
  /\ pc = "args"
  /\ \E why \in {"missing value", "unknown target", "unknown option"} :
       Exit(1, why)
  /\ UNCHANGED <<files, meta_out>>

\* End of the options with no target: exit(1).
NoTargets ==
  /\ pc = "args"
  /\ targets = <<>>
  /\ Exit(1, "no targets")
  /\ UNCHANGED <<files, meta_out>>

\* End of the options: the targets are sorted by api.
SortTargets ==
  /\ pc = "args"
  /\ targets # <<>>
  /\ targets' \in SortOutcomes(targets)
  /\ pc' = "parse"
  /\ UNCHANGED <<exit_code, err, header_path, techniques,
                 spv_results, target_info, tech, ep, spv_idx,
                 generate_pipeline_metadata, res_layout, images_to_cis,
                 samplers_to_cis, cis_decor, used_spv, files, meta_out>>

\* ---- parse_techniques ---------------------------------------------------

NoTechniques ==
  /\ pc = "parse"
  /\ Exit(1, "no techniques")
  /\ UNCHANGED <<files, meta_out>>

ParseTechniques ==
  /\ pc = "parse"
  /\ \E ts \in TechniqueInputs :
       /\ ts # <<>>
       /\ techniques' = ts
       /\ meta_out' = [t \in 1..Len(ts) |-> <<>>]
  /\ pc' = "compile"
  /\ tech' = 1
  /\ ep' = 1
  /\ UNCHANGED <<exit_code, err, targets, header_path,
                 spv_results, target_info, spv_idx,
                 generate_pipeline_metadata, res_layout, images_to_cis,
                 samplers_to_cis, cis_decor, used_spv, files>>

\* ---- the SPIR-V loop ----------------------------------------------------

\* CompileLoopDone that stops after the first technique.
CompileLoopDone_FirstOnly(techs, t) == t > 1

CompileLoopDone(techs, t) == t > Len(techs)

\* One entry point compiled with success.
CompileOk ==
  /\ pc = "compile"
  /\ ~CompileLoopDone(techniques, tech)
  /\ ep <= Len(EntryPoints(tech))
  /\ spv_results' = Append(spv_results,
                           [tech |-> tech, ep |-> ep,
                            spv |-> EntryPoints(tech)[ep].spv, ok |-> TRUE])
  /\ ep' = ep + 1
  /\ UNCHANGED <<pc, exit_code, err, targets, header_path,
                 techniques, target_info, tech, spv_idx,
                 generate_pipeline_metadata, res_layout, images_to_cis,
                 samplers_to_cis, cis_decor, used_spv, files, meta_out>>

\* One entry point fails to compile: exit(1).
CompileFail ==
  /\ pc = "compile"
  /\ ~CompileLoopDone(techniques, tech)
  /\ ep <= Len(EntryPoints(tech))
  /\ Exit(1, "frontend")
  /\ UNCHANGED <<files, meta_out>>

\* The entry points of a technique are exhausted: next technique.
CompileNextTechnique ==
  /\ pc = "compile"
  /\ ~CompileLoopDone(techniques, tech)
  /\ ep > Len(EntryPoints(tech))
  /\ tech' = tech + 1
  /\ ep' = 1
  /\ UNCHANGED <<pc, exit_code, err, targets, header_path,
                 techniques, spv_results, target_info, spv_idx,
                 generate_pipeline_metadata, res_layout, images_to_cis,
                 samplers_to_cis, cis_decor, used_spv, files, meta_out>>

\* ---- the header file ----------------------------------------------------

\* header_file_writer is constructed; with -h the file is created, and a
\* failure to open it is exit(1).
OpenHeader ==
  /\ pc = "compile"
  /\ CompileLoopDone(techniques, tech)
  /\ \E opened \in BOOLEAN :
       IF header_path /\ ~opened
       THEN /\ Exit(1, "io")
            /\ UNCHANGED <<files, meta_out>>
       ELSE /\ files' = IF header_path THEN files \cup {HeaderFile} ELSE files
            /\ generate_pipeline_metadata' = TRUE
            /\ target_info' = 1
            /\ pc' = "target"
            /\ UNCHANGED <<exit_code, err, targets, header_path, techniques,
                           spv_results, tech, ep, spv_idx, res_layout,
                           images_to_cis, samplers_to_cis, cis_decor,
                           used_spv, meta_out>>

\* ---- the target loop ----------------------------------------------------

\* spv_idx declared outside the target loop: it keeps its value.
SpvIdxAtTargetStart_NoReset(idx) == idx

\* uint32_t spv_idx = 0u at the top of the target loop body.
SpvIdxAtTargetStart(idx) == 0

\* The flag never cleared.
GenerateFlagAfterTarget_Kept(gpm) == gpm

\* generate_pipeline_metadata = false at the end of the target loop body.
GenerateFlagAfterTarget(gpm) == FALSE

BeginTarget ==
  /\ pc = "target"
  /\ target_info <= Len(targets)
  /\ spv_idx' = SpvIdxAtTargetStart(spv_idx)
  /\ tech' = 1
  /\ pc' = "tech"
  /\ UNCHANGED <<exit_code, err, targets, header_path,
                 techniques, spv_results, target_info, ep,
                 generate_pipeline_metadata, res_layout, images_to_cis,
                 samplers_to_cis, cis_decor, used_spv, files, meta_out>>

\* All targets processed: return 0.
Finish ==
  /\ pc = "target"
  /\ target_info > Len(targets)
  /\ Exit(0, "")
  /\ UNCHANGED <<files, meta_out>>

\* A technique starts with a new layout and new maps.
BeginTechnique ==
  /\ pc = "tech"
  /\ tech <= Len(techniques)
  /\ res_layout' = EmptyLayout
  /\ images_to_cis' = EmptyMap
  /\ samplers_to_cis' = EmptyMap
  /\ cis_decor' = <<>>
  /\ ep' = 1
  /\ pc' = "ep"
  /\ UNCHANGED <<exit_code, err, targets, header_path,
                 techniques, spv_results, target_info, tech, spv_idx,
                 generate_pipeline_metadata, used_spv, files, meta_out>>

\* All techniques processed for this target.
EndTarget ==
  /\ pc = "tech"
  /\ tech > Len(techniques)
  /\ generate_pipeline_metadata' =
       GenerateFlagAfterTarget(generate_pipeline_metadata)
  /\ target_info' = target_info + 1
  /\ pc' = "target"
  /\ UNCHANGED <<exit_code, err, targets, header_path,
                 techniques, spv_results, tech, ep, spv_idx, res_layout,
                 images_to_cis, samplers_to_cis, cis_decor, used_spv, files,
                 meta_out>>

\* The body of the entry point loop.
ProcessEntryPoint ==
  /\ pc = "ep"
  /\ ep <= Len(EntryPoints(tech))
  /\ LET e          == EntryPoints(tech)[ep]
         ti         == TARGET_MAP[targets[target_info]]
         spv_result == IF spv_idx < Len(spv_results)
                       THEN spv_results[spv_idx + 1] ELSE NoSpv
         cis        == get_combined_image_samplers(spv_result.spv, ti.api)
         decor      == SetCisDecorations(cis)
         fed        == FeedEntryPoint(
                         [layout |-> res_layout, images |-> images_to_cis,
                          samplers |-> samplers_to_cis],
                         e.kind, spv_result.spv, ti.api,
                         generate_pipeline_metadata)
     IN  IF fed.layout.conflict
         THEN \* process_resources found a type mismatch: exit(1)
              /\ Exit(1, "layout conflict")
              /\ UNCHANGED <<files, meta_out>>
         ELSE \E opened \in BOOLEAN :
                IF ~opened
                THEN \* fopen failed: exit(1)
                     /\ Exit(1, "io")
                     /\ UNCHANGED <<files, meta_out>>
                ELSE /\ spv_idx' = spv_idx + 1
                     /\ used_spv' = spv_result
                     /\ cis_decor' = cis_decor \o
                          [i \in 1..Len(decor) |->
                             [ep |-> ep,
                              image_id |-> decor[i].image_id,
                              sampler_id |-> decor[i].sampler_id,
                              combined_id |-> decor[i].combined_id,
                              set |-> decor[i].set,
                              binding |-> decor[i].binding]]
                     /\ res_layout' = fed.layout
                     /\ images_to_cis' = fed.images
                     /\ samplers_to_cis' = fed.samplers
                     /\ files' = files \cup
                          {ShaderFile(tech, e.kind, ti.file_ext)}
                     /\ ep' = ep + 1
                     /\ UNCHANGED <<pc, exit_code, err, targets, header_path,
                                    techniques, spv_results, target_info,
                                    tech, generate_pipeline_metadata,
                                    meta_out>>

\* After the entry points of a technique: its .pipeline file (and header
\* block) is written if generate_pipeline_metadata.
WriteMetadata ==
  /\ pc = "ep"
  /\ ep > Len(EntryPoints(tech))
  /\ generate_pipeline_metadata
  /\ files' = files \cup {PipelineFile(tech)}
  /\ meta_out' = [meta_out EXCEPT ![tech] =
       Append(@, [target_info |-> target_info,
                  records |-> MetadataRecords(res_layout, images_to_cis,
                                              samplers_to_cis)])]
  /\ tech' = tech + 1
  /\ pc' = "tech"
  /\ UNCHANGED <<exit_code, err, targets, header_path,
                 techniques, spv_results, target_info, ep, spv_idx,
                 generate_pipeline_metadata, res_layout, images_to_cis,
                 samplers_to_cis, cis_decor, used_spv>>

SkipMetadata ==
  /\ pc = "ep"
  /\ ep > Len(EntryPoints(tech))
  /\ ~generate_pipeline_metadata
  /\ tech' = tech + 1
  /\ pc' = "tech"
  /\ UNCHANGED <<exit_code, err, targets, header_path,
                 techniques, spv_results, target_info, ep, spv_idx,
                 generate_pipeline_metadata, res_layout, images_to_cis,
                 samplers_to_cis, cis_decor, used_spv, files, meta_out>>

Next ==
  \/ ShowUsage
  \/ OptTarget
  \/ OptHeader
  \/ OptUsageError
  \/ NoTargets
  \/ SortTargets
  \/ NoTechniques
  \/ ParseTechniques
  \/ CompileOk
  \/ CompileFail
  \/ CompileNextTechnique
  \/ OpenHeader
  \/ BeginTarget
  \/ Finish
  \/ BeginTechnique
  \/ EndTarget
  \/ ProcessEntryPoint
  \/ WriteMetadata
  \/ SkipMetadata

Spec == Init /\ [][Next]_vars

----------------------------------------------------------------------------
\* Properties.

InTargetLoop == pc \in {"target", "tech", "ep"}

\* The entry points of the current technique are all processed: the state
\* in which its metadata is written (if it is written at all).
AtMetadata == pc = "ep" /\ ep > Len(EntryPoints(tech))

CurrentApi == TARGET_MAP[targets[target_info]].api

RECURSIVE SumEntryPoints(_)
SumEntryPoints(ts) ==
  IF ts = <<>> THEN 0
  ELSE Len(Head(ts).entry_points) + SumEntryPoints(Tail(ts))

\* The metadata of a technique when every entry point is fed under api with
\* generate_pipeline_metadata set, as in the iteration of a first target.
RECURSIVE FeedAll(_, _, _)
FeedAll(acc, eps, api) ==
  IF eps = <<>> THEN acc
  ELSE FeedAll(FeedEntryPoint(acc, Head(eps).kind, Head(eps).spv, api, TRUE),
               Tail(eps), api)

TechniqueMetadata(t, api) ==
  LET fed == FeedAll([layout |-> EmptyLayout, images |-> EmptyMap,
                      samplers |-> EmptyMap], t.entry_points, api)
  IN  MetadataRecords(fed.layout, fed.images, fed.samplers)

\* C1: the metadata written for a technique is the metadata any target api
\* would give for it: it does not depend on which api is processed first.
C1_MetadataSameForAllTargets ==
  pc # "done" =>
    \A t \in DOMAIN meta_out : \A k \in DOMAIN meta_out[t] :
      \A api \in {"GL", "VULKAN", "METAL"} :
        meta_out[t][k].records = TechniqueMetadata(techniques[t], api)

\* C2: generate_pipeline_metadata is true exactly during the iteration of
\* the first target; a technique's metadata is written at most once, only
\* during that iteration, and exactly once in a run that returns 0.
C2_MetadataOnceOnFirstTarget ==
  /\ InTargetLoop => (generate_pipeline_metadata <=> target_info = 1)
  /\ \A t \in DOMAIN meta_out :
       /\ Len(meta_out[t]) <= 1
       /\ \A k \in DOMAIN meta_out[t] : meta_out[t][k].target_info = 1
  /\ (pc = "done" /\ exit_code = 0) =>
       \A t \in DOMAIN meta_out :
         Len(meta_out[t]) = 1 /\ PipelineFile(t) \in files

\* A run of two techniques over two targets with different file extensions
\* has returned 0.
C2_Witness ==
  /\ pc = "done" /\ exit_code = 0
  /\ Len(meta_out) >= 2
  /\ \E f, g \in files : f[1] = "shader" /\ g[1] = "shader" /\ f[4] # g[4]

\* C3: the order the targets are processed in after the sort is the same for
\* every order the same -t options can be given in.
C3_OrderIndependent ==
  [][(pc = "args" /\ pc' = "parse") =>
       \A p \in Arrangements(targets) : SortOutcomes(p) = {targets'}]_vars

\* The stage bits of the entry points 1..n of technique t that have a
\* resource at (set, slot), OR-ed.
RECURSIVE ExpectedStageMask(_, _, _, _)
ExpectedStageMask(t, n, set, slot) ==
  IF n = 0 THEN 0
  ELSE LET e   == EntryPoints(t)[n]
           m   == SpvModules[e.spv]
           all == Range(m.ubo) \cup Range(m.ssbo) \cup Range(m.smp)
                    \cup Range(m.img)
           bit == IF e.kind = "vs" THEN 1 ELSE 2
           me  == IF \E r \in all : r.set = set /\ r.slot = slot
                  THEN bit ELSE 0
       IN  BitOr(ExpectedStageMask(t, n - 1, set, slot), me)

\* The resources of a module with the descriptor type main feeds them as.
TypedResources(spv) ==
  LET m == SpvModules[spv]
  IN  {<<r, UNIFORM_BUFFER>> : r \in Range(m.ubo)}
        \cup {<<r, STORAGE_BUFFER>> : r \in Range(m.ssbo)}
        \cup {<<r, SAMPLER>> : r \in Range(m.smp)}
        \cup {<<r, TEXTURE>> : r \in Range(m.img)}

\* Entry point ep of the current technique brings a resource whose key is
\* in the layout with another type.
TypeClash ==
  \E x \in TypedResources(EntryPoints(tech)[ep].spv) :
    \E d \in res_layout.descs :
      d.set = x[1].set /\ d.oslot = x[1].slot /\ d.type # x[2]

LayoutMerged ==
  pc = "ep" =>
    /\ \A d1, d2 \in res_layout.descs :
         (d1.set = d2.set /\ d1.oslot = d2.oslot) => d1 = d2
    /\ \A d \in res_layout.descs :
         d.stage_mask = ExpectedStageMask(tech, ep - 1, d.set, d.oslot)

\* C4: a (set, slot) key has one descriptor, whose stage mask is the OR of
\* the stage bits of the entry points that brought it; an entry point that
\* brings a key with another type ends the run with exit code 1 before the
\* technique's .pipeline file is written, and nothing else does so with a
\* layout conflict.
C4_MergeRule ==
  [][/\ LayoutMerged'
     /\ (pc = "ep" /\ ep <= Len(EntryPoints(tech)) /\ TypeClash
           /\ FeedGuard(DoRemapping(CurrentApi), generate_pipeline_metadata))
          => (pc' = "done" /\ exit_code' = 1 /\ err' = "layout conflict"
                /\ PipelineFile(tech) \notin files')
     /\ err' = "layout conflict"
          => (pc = "ep" /\ ep <= Len(EntryPoints(tech)) /\ TypeClash)]_vars

\* A key fed by the vertex and by the fragment stage: one descriptor with
\* stage_mask 0x3.
C4_Witness ==
  /\ AtMetadata
  /\ \E d \in res_layout.descs : d.stage_mask = 3

\* C5: under GL and METAL the assigned slots of each set of the layout are
\* 0 .. k-1, k the number of descriptors of the set.
C5_DenseSlots ==
  (pc = "ep" /\ CurrentApi \in {"GL", "METAL"}) =>
    \A s \in {d.set : d \in res_layout.descs} :
      LET ds == {d \in res_layout.descs : d.set = s}
      IN  /\ {d.slot : d \in ds} = 0 .. (Cardinality(ds) - 1)
          /\ \A d1, d2 \in ds : d1.slot = d2.slot => d1 = d2

\* A METAL layout is complete, with a set of three descriptors and a
\* descriptor moved away from its original slot.
C5_Witness ==
  /\ AtMetadata
  /\ CurrentApi = "METAL"
  /\ \E d \in res_layout.descs : d.slot # d.oslot
  /\ \E s \in {d.set : d \in res_layout.descs} :
       Cardinality({d \in res_layout.descs : d.set = s}) >= 3

\* C6: when a technique's metadata is written, every combined sampler built
\* for its entry points is in the image map under its image and in the
\* sampler map under its sampler.
C6_CisMapsComplete ==
  (AtMetadata /\ generate_pipeline_metadata) =>
    \A i \in DOMAIN cis_decor :
      LET c == cis_decor[i]
      IN  /\ c.image_id \in DOMAIN images_to_cis
          /\ c.combined_id \in Range(images_to_cis[c.image_id])
          /\ c.sampler_id \in DOMAIN samplers_to_cis
          /\ c.combined_id \in Range(samplers_to_cis[c.sampler_id])

\* Metadata is about to be written with a sampler that is part of two
\* combined samplers.
C6_Witness ==
  /\ AtMetadata /\ generate_pipeline_metadata
  /\ Len(cis_decor) >= 2
  /\ \E s \in DOMAIN samplers_to_cis : Len(samplers_to_cis[s]) >= 2

\* C7: the combined samplers of a technique, in processing order over all
\* its entry points, are bound to slots 0, 1, 2, ... of the set
\* AUTOGEN_CIS_DESCRIPTOR_SET.
C7_CisSlotsRunPerTechnique ==
  \A i \in DOMAIN cis_decor :
    /\ cis_decor[i].set = AUTOGEN_CIS_DESCRIPTOR_SET
    /\ cis_decor[i].binding = i - 1

\* C8: when a technique's metadata is written, every combined sampler built
\* for it is a descriptor of set AUTOGEN_CIS_DESCRIPTOR_SET of the layout.
C8_CisInLayout ==
  (AtMetadata /\ generate_pipeline_metadata) =>
    \A i \in DOMAIN cis_decor :
      \E d \in res_layout.descs :
        /\ d.set = AUTOGEN_CIS_DESCRIPTOR_SET
        /\ d.type = COMBINED_IMAGE_SAMPLER
        /\ d.slot = cis_decor[i].binding

\* C9: spv_idx is 0 when a target iteration starts, indexes the module
\* compiled for the technique and entry point about to be processed, and is
\* the number of entry points of all techniques when the iteration ends.
C9_SpvIdx ==
  /\ (pc = "tech" /\ tech = 1) => spv_idx = 0
  /\ (pc = "ep" /\ ep <= Len(EntryPoints(tech))) =>
       /\ spv_idx < Len(spv_results)
       /\ spv_results[spv_idx + 1].tech = tech
       /\ spv_results[spv_idx + 1].ep = ep
       /\ spv_results[spv_idx + 1].spv = EntryPoints(tech)[ep].spv
  /\ (pc = "ep" /\ ep > 1) => (used_spv.tech = tech /\ used_spv.ep = ep - 1)
  /\ (pc = "tech" /\ tech > Len(techniques)) =>
       spv_idx = SumEntryPoints(techniques)
  /\ (pc = "target" /\ target_info > 1) => spv_idx = SumEntryPoints(techniques)

\* The second target iteration has ended, over techniques one of which has
\* no entry point.
C9_Witness ==
  /\ pc = "tech" /\ tech > Len(techniques)
  /\ target_info = 2
  /\ spv_idx >= 2
  /\ \E t \in DOMAIN techniques : EntryPoints(t) = <<>>

\* C10: a file exists only once the targets are known, techniques are
\* parsed and every entry point is compiled; a run ended by a usage error,
\* by the absence of techniques or by a compilation failure has no file.
C10_NoOutputBeforeCompiled ==
  /\ (files # {} /\ pc # "done") =>
       /\ InTargetLoop
       /\ targets # <<>>
       /\ techniques # <<>>
       /\ Len(spv_results) = SumEntryPoints(techniques)
       /\ \A i \in DOMAIN spv_results : spv_results[i].ok
  /\ (exit_code = 1 /\ err \in {"missing value", "unknown target",
                                "unknown option", "no targets",
                                "no techniques", "frontend"}) =>
       files = {}

\* A run ended by a compilation failure.
C10_Witness ==
  pc = "done" /\ exit_code = 1 /\ err = "frontend" /\ files = {}

====
